---- MODULE Spec2Model ----
(***************************************************************************)
(* Model of pypolestar's PolestarApi (src/src/pypolestar/polestar_api.py): *)
(* the in-memory cache of GraphQL results, the field resolver, the read    *)
(* accessors, the GraphQL executor and the refresh operations, run by      *)
(* cooperative (asyncio) tasks that switch only at await points.           *)
(***************************************************************************)
EXTENDS Integers, Sequences, FiniteSets, TLC

(***************************************************************************)
(* Bounds of the model.                                                    *)
(***************************************************************************)
\* The clock (datetime.now()) runs over 0..MaxTime.
MaxTime == 2
\* The cooperative tasks that use the session.
NTasks == 2
\* CACHE_TIME of .const (imported at lines 10-12), in clock ticks.
CACHE_TIME == 2

(***************************************************************************)
(* JSON-like values as Python sees them.  A string value is the sequence   *)
(* of its pieces, so that slicing and emptiness are computed.              *)
(***************************************************************************)
Null == [t |-> "null"]
Num(n) == [t |-> "num", n |-> n]
Str(s) == [t |-> "str", s |-> s]
Bool(b) == [t |-> "bool", b |-> b]
Map(f) == [t |-> "map", m |-> f]
List(s) == [t |-> "list", l |-> s]
EmptyMap == Map(<<>>)

\* Python truthiness: None, 0, "", False and empty containers are falsy.
Truthy(x) ==
  CASE x.t = "null" -> FALSE
    [] x.t = "num" -> x.n # 0
    [] x.t = "str" -> Len(x.s) > 0
    [] x.t = "bool" -> x.b
    [] x.t = "map" -> DOMAIN x.m # {}
    [] x.t = "list" -> Len(x.l) > 0

\* The outcome of a call: a returned value or a raised exception.
Ret(v) == [kind |-> "return", val |-> v]
Raise(e) == [kind |-> "raise", val |-> [t |-> "exc", e |-> e]]
None == Ret(Null)

\* dict.get(key): the value, or None when the key is missing; a value that
\* is not a mapping has no attribute get.
PyGet(data, key) ==
  IF data.t # "map" THEN Raise("AttributeError")
  ELSE IF key \in DOMAIN data.m THEN Ret(data.m[key]) ELSE None

\* data[key] for a string key: KeyError on a mapping without the key,
\* TypeError on anything that is not a mapping.
PyIndex(data, key) ==
  IF data.t # "map" THEN Raise("TypeError")
  ELSE IF key \in DOMAIN data.m THEN Ret(data.m[key]) ELSE Raise("KeyError")

(***************************************************************************)
(* Arguments that may be None.  A field name is the sequence of its        *)
(* pieces, "/" being a piece of its own: "a/b" is <<"a", "/", "b">>.       *)
(***************************************************************************)
NoneField == [isNone |-> TRUE, s |-> <<>>]
Field(toks) == [isNone |-> FALSE, s |-> toks]
NoneQuery == [isNone |-> TRUE, s |-> ""]
Query(q) == [isNone |-> FALSE, s |-> q]

\* str.split('/'): the keys between the separators, "" for an empty one.
\* cur is the key being read, "" while none has been read.
RECURSIVE SplitFrom(_, _)
SplitFrom(toks, cur) ==
  IF toks = <<>> THEN <<cur>>
  ELSE IF Head(toks) = "/" THEN <<cur>> \o SplitFrom(Tail(toks), "")
  ELSE SplitFrom(Tail(toks), Head(toks))

Split(toks) == SplitFrom(toks, "")

HasSlash(toks) == \E i \in 1..Len(toks) : toks[i] = "/"

\* A field name without separator, used as a key as it is.
KeyOf(toks) == IF toks = <<>> THEN "" ELSE toks[1]

(***************************************************************************)
(* _get_field_name_value, lines 54-72.                                     *)
(***************************************************************************)
\* A variant of the loop that hands back the last key's value as it is.
RECURSIVE WalkKeys_final_as_is(_, _)
WalkKeys_final_as_is(keys, data) ==
  IF keys = <<>> THEN Ret(data)
  ELSE LET got == PyGet(data, Head(keys)) IN
       IF got.kind = "raise" THEN got
       ELSE IF Len(keys) = 1 THEN got
       ELSE IF Truthy(got.val) THEN WalkKeys_final_as_is(Tail(keys), got.val)
       ELSE None

\* The loop of lines 65-70 over the keys still to visit.
RECURSIVE WalkKeys(_, _)
WalkKeys(keys, data) ==
  IF keys = <<>> THEN Ret(data)
  ELSE LET got == PyGet(data, Head(keys)) IN
       IF got.kind = "raise" THEN got
       ELSE IF Truthy(got.val) THEN WalkKeys(Tail(keys), got.val)
       ELSE None

_get_field_name_value(field_name, data) ==
  IF field_name.isNone THEN None
  ELSE IF data = Null THEN None
  ELSE IF ~Truthy(data) THEN None
  ELSE IF HasSlash(field_name.s) THEN WalkKeys(Split(field_name.s), data)
  ELSE PyIndex(data, KeyOf(field_name.s))

(***************************************************************************)
(* The session object and its callers.                                     *)
(***************************************************************************)
VARIABLES
  attrs,       \* the attributes among AttrNames that exist on the object
  cache_data,  \* self.cache_data: query name -> [data, timestamp]
  updating,    \* self.updating
  vin,         \* self.vin
  id,          \* self.id
  name,        \* self.name
  now,         \* datetime.now()
  task,        \* each task's call in progress and its position in it
  last         \* the synchronous call just made and its outcome

vars == <<attrs, cache_data, updating, vin, id, name, now, task, last>>

AttrNames == {"cache_data", "updating", "vin", "id", "name"}

\* The methods class PolestarApi defines (lines 23-157).
Methods == {"__init__", "init", "get_latest_data", "_get_field_name_value",
            "get_cache_data", "getOdometerData", "getBatteryData",
            "get_ev_data", "get_graph_ql", "get_odo_data",
            "get_battery_data", "get_vehicle_data", "__version__"}

Tasks == 1..NTasks

CARS == "getConsumerCarsV2"
ODO == "getOdometerData"
BAT == "getBatteryData"
QueryNames == {CARS, ODO, BAT}

NOT_AUTHENTICATED == Str(<<"User not authenticated">>)

(***************************************************************************)
(* What the server may answer (the transport and the server are outside    *)
(* the program: every answer below is one it can send).                    *)
(***************************************************************************)
VIN_LONG == Str(<<"L", "P", "S", "V", "S", "E", "D", "E", "E", "M", "L",
                  "0", "0", "2", "3", "9", "8">>)
VIN_SHORT == Str(<<"Y", "S", "3">>)

Vehicle(v) ==
  Map("vin" :> v @@
      "content" :> Map("model" :> Map("name" :> Str(<<"2">>) @@
                                      "__typename" :> Str(<<"X">>))))

Payloads(q) ==
  CASE q = CARS -> {Null, List(<<>>), List(<<Vehicle(VIN_LONG)>>),
                    List(<<Vehicle(VIN_SHORT), Vehicle(VIN_LONG)>>)}
    [] q = ODO -> {Null, Map("odometerMeters" :> Num(0))}
    [] q = BAT -> {Null, Map("batteryChargeLevelPercentage" :> Num(80))}

ErrorList(msg) == List(<<Map("message" :> msg)>>)
OTHER_ERROR == Str(<<"Internal server error">>)

Responses(q) ==
  {Map("data" :> Map(q :> p)) : p \in Payloads(q)}
    \cup {Map("errors" :> ErrorList(NOT_AUTHENTICATED) @@ "data" :> Null),
          Map("errors" :> ErrorList(OTHER_ERROR) @@ "data" :> Null),
          Map("errors" :> ErrorList(OTHER_ERROR))}

\* What the await of the GET ends with: a JSON body, or the transport raising.
Arrivals(q) == {Ret(r) : r \in Responses(q)} \cup {Raise("ClientError")}

(***************************************************************************)
(* The read accessors.                                                     *)
(***************************************************************************)
\* Variants of get_cache_data: an entry still fresh at timestamp +
\* CACHE_TIME; skip_cache ignored; the entry indexed instead of looked up.
get_cache_data_inclusive(query, field_name, skip_cache) ==
  IF query.isNone THEN None
  ELSE IF "cache_data" \notin attrs THEN Raise("AttributeError")
  ELSE IF DOMAIN cache_data # {} /\ query.s \in DOMAIN cache_data
  THEN LET entry == cache_data[query.s] IN
       IF skip_cache = FALSE
       THEN IF entry.timestamp + CACHE_TIME >= now
            THEN IF entry.data = Null THEN None
                 ELSE _get_field_name_value(field_name, entry.data)
            ELSE None
       ELSE IF entry.data = Null THEN None
            ELSE _get_field_name_value(field_name, entry.data)
  ELSE None

get_cache_data_fresh_only(query, field_name, skip_cache) ==
  IF query.isNone THEN None
  ELSE IF "cache_data" \notin attrs THEN Raise("AttributeError")
  ELSE IF DOMAIN cache_data # {} /\ query.s \in DOMAIN cache_data
  THEN LET entry == cache_data[query.s] IN
       IF entry.timestamp + CACHE_TIME > now
       THEN IF entry.data = Null THEN None
            ELSE _get_field_name_value(field_name, entry.data)
       ELSE None
  ELSE None

get_cache_data_indexed(query, field_name, skip_cache) ==
  IF query.isNone THEN None
  ELSE IF "cache_data" \notin attrs THEN Raise("AttributeError")
  ELSE IF DOMAIN cache_data = {} THEN None
  ELSE IF query.s \notin DOMAIN cache_data THEN Raise("KeyError")
  ELSE LET entry == cache_data[query.s] IN
       IF skip_cache = FALSE
       THEN IF entry.timestamp + CACHE_TIME > now
            THEN IF entry.data = Null THEN None
                 ELSE _get_field_name_value(field_name, entry.data)
            ELSE None
       ELSE IF entry.data = Null THEN None
            ELSE _get_field_name_value(field_name, entry.data)

\* lines 74-90
get_cache_data(query, field_name, skip_cache) ==
  IF query.isNone THEN None
  ELSE IF "cache_data" \notin attrs THEN Raise("AttributeError")
  ELSE IF DOMAIN cache_data # {} /\ query.s \in DOMAIN cache_data
  THEN LET entry == cache_data[query.s] IN
       IF skip_cache = FALSE
       THEN IF entry.timestamp + CACHE_TIME > now
            THEN IF entry.data = Null THEN None
                 ELSE _get_field_name_value(field_name, entry.data)
            ELSE None
       ELSE IF entry.data = Null THEN None
            ELSE _get_field_name_value(field_name, entry.data)
  ELSE None

\* lines 47-52
get_latest_data(query, field_name) ==
  IF "cache_data" \notin attrs THEN Raise("AttributeError")
  ELSE IF DOMAIN cache_data = {} THEN None
  ELSE IF query.isNone \/ query.s \notin DOMAIN cache_data
  THEN Raise("KeyError")
  ELSE LET data == cache_data[query.s].data IN
       IF data = Null THEN Ret(Bool(FALSE))
       ELSE _get_field_name_value(field_name, data)

(***************************************************************************)
(* Tasks.  A task is idle, or inside one asynchronous call of the session  *)
(* and suspended at one of its awaits; the code between two awaits runs    *)
(* as one step.                                                            *)
(*   pc "token":   init awaits self.auth.get_token()           (line 30)   *)
(*   pc "headers": get_graph_ql awaits self.auth.headers()     (line 113)  *)
(*   pc "get":     get_graph_ql awaits the GET and its body    (115-116)   *)
(* gets and refreshes count the GETs issued and the tokens renewed by the  *)
(* call so far.  last is the call that has just returned or raised, task   *)
(* 0 standing for a synchronous caller.                                    *)
(***************************************************************************)
IdleTask ==
  [op |-> "none", pc |-> "idle", q |-> "", gets |-> 0, refreshes |-> 0]

Called(op) == [IdleTask EXCEPT !.op = op]

NoCall ==
  [task |-> 0, op |-> "none", query |-> NoneQuery,
   field_name |-> NoneField, skip_cache |-> FALSE, data |-> Null,
   gets |-> 0, refreshes |-> 0, result |-> None]

\* The call of task t ends with result; data is the last body it received.
Ended(t, rec, data, result) ==
  [NoCall EXCEPT !.task = t, !.op = rec.op,
                 !.query = IF rec.q = "" THEN NoneQuery ELSE Query(rec.q),
                 !.data = data, !.gets = rec.gets,
                 !.refreshes = rec.refreshes, !.result = result]

\* s[:n] and s[-n:] of a string.
PyPrefix(s, n) == SubSeq(s, 1, IF Len(s) < n THEN Len(s) ELSE n)
PySuffix(s, n) == SubSeq(s, IF Len(s) > n THEN Len(s) - n + 1 ELSE 1, Len(s))

\* The object, the task and the ended call as a step leaves them, starting
\* from "the task goes on as rec and nothing else changed".
Same(rec) ==
  [task |-> rec, last |-> NoCall, attrs |-> attrs,
   cache_data |-> cache_data, updating |-> updating, vin |-> vin,
   id |-> id, name |-> name]

\* The call of task t ends here.
Ends(t, rec, data, result) ==
  [Same(IdleTask) EXCEPT !.last = Ended(t, rec, data, result)]

\* get_vehicle_data, get_odo_data, get_battery_data (lines 129-154) up to
\* the first await of get_graph_ql: the odometer and battery parameters are
\* built from self.vin.
Fetch(t, rec, data, q) ==
  IF q # CARS /\ "vin" \notin attrs
  THEN Ends(t, rec, data, Raise("AttributeError"))
  ELSE IF q # CARS /\ vin.t # "str"
  THEN Ends(t, rec, data, Raise("TypeError"))
  ELSE Same([rec EXCEPT !.pc = "headers", !.q = q])

\* A variant of get_graph_ql that raises on every error list.
graph_ql_result_raises_on_errors(a) ==
  IF a.kind = "raise" THEN a
  ELSE LET resultData == a.val
           errors == PyGet(resultData, "errors").val
       IN IF Truthy(errors)
          THEN IF PyIndex(errors.l[1], "message") = Ret(NOT_AUTHENTICATED)
               THEN IF "get_token" \in Methods
                    THEN [kind |-> "retry", val |-> resultData]
                    ELSE Raise("AttributeError")
               ELSE Raise("PolestarApiException")
          ELSE Ret(resultData)

\* get_graph_ql from the body's arrival on (lines 116-127): the response is
\* returned, unless its first error is the authentication failure; then
\* self.get_token() is looked up on the session object.
graph_ql_result(a) ==
  IF a.kind = "raise" THEN a
  ELSE LET resultData == a.val
           errors == PyGet(resultData, "errors").val
       IN IF Truthy(errors)
          THEN IF PyIndex(errors.l[1], "message") = Ret(NOT_AUTHENTICATED)
               THEN IF "get_token" \in Methods
                    THEN [kind |-> "retry", val |-> resultData]
                    ELSE Raise("AttributeError")
               ELSE Ret(resultData)
          ELSE Ret(resultData)

\* result['data'][q]
DataOf(result, q) ==
  LET d == PyIndex(result, "data") IN
  IF d.kind = "raise" THEN d ELSE PyIndex(d.val, q)

\* A variant of init that tests the vehicle list for None only.
init_rest_none_only(t, rec, result) ==
  LET cars == DataOf(result, CARS) IN
  IF cars.kind = "raise" THEN Ends(t, rec, result, cars)
  ELSE IF cars.val = Null
  THEN Ends(t, rec, result, Raise("PolestarApiException"))
  ELSE IF "cache_data" \notin attrs
  THEN Ends(t, rec, result, Raise("AttributeError"))
  ELSE IF Len(cars.val.l) = 0
  THEN Ends(t, rec, result, Raise("IndexError"))
  ELSE LET first == cars.val.l[1]
           seeded == (CARS :> [data |-> first, timestamp |-> now])
                       @@ cache_data
           v == PyIndex(first, "vin")
       IN IF v.kind = "raise"
          THEN [Ends(t, rec, result, v) EXCEPT !.cache_data = seeded]
          ELSE IF v.val.t # "str"
          THEN [Ends(t, rec, result, Raise("TypeError")) EXCEPT
                  !.cache_data = seeded, !.vin = v.val,
                  !.attrs = attrs \cup {"vin"}]
          ELSE [Ends(t, rec, result, None) EXCEPT
                  !.cache_data = seeded, !.vin = v.val,
                  !.id = Str(PyPrefix(v.val.s, 8)),
                  !.name = Str(<<"Polestar ">> \o PySuffix(v.val.s, 4)),
                  !.attrs = attrs \cup {"vin", "id", "name"}]

\* A variant of init that takes the whole vin as the id.
init_rest_id_is_vin(t, rec, result) ==
  LET cars == DataOf(result, CARS) IN
  IF cars.kind = "raise" THEN Ends(t, rec, result, cars)
  ELSE IF cars.val = Null \/ Len(cars.val.l) = 0
  THEN Ends(t, rec, result, Raise("PolestarApiException"))
  ELSE IF "cache_data" \notin attrs
  THEN Ends(t, rec, result, Raise("AttributeError"))
  ELSE LET first == cars.val.l[1]
           seeded == (CARS :> [data |-> first, timestamp |-> now])
                       @@ cache_data
           v == PyIndex(first, "vin")
       IN IF v.kind = "raise"
          THEN [Ends(t, rec, result, v) EXCEPT !.cache_data = seeded]
          ELSE IF v.val.t # "str"
          THEN [Ends(t, rec, result, Raise("TypeError")) EXCEPT
                  !.cache_data = seeded, !.vin = v.val,
                  !.attrs = attrs \cup {"vin"}]
          ELSE [Ends(t, rec, result, None) EXCEPT
                  !.cache_data = seeded, !.vin = v.val,
                  !.id = v.val,
                  !.name = Str(<<"Polestar ">> \o PySuffix(v.val.s, 4)),
                  !.attrs = attrs \cup {"vin", "id", "name"}]

\* A variant of init that takes the last vehicle of the list.
init_rest_last_car(t, rec, result) ==
  LET cars == DataOf(result, CARS) IN
  IF cars.kind = "raise" THEN Ends(t, rec, result, cars)
  ELSE IF cars.val = Null \/ Len(cars.val.l) = 0
  THEN Ends(t, rec, result, Raise("PolestarApiException"))
  ELSE IF "cache_data" \notin attrs
  THEN Ends(t, rec, result, Raise("AttributeError"))
  ELSE LET first == cars.val.l[Len(cars.val.l)]
           seeded == (CARS :> [data |-> first, timestamp |-> now])
                       @@ cache_data
           v == PyIndex(first, "vin")
       IN IF v.kind = "raise"
          THEN [Ends(t, rec, result, v) EXCEPT !.cache_data = seeded]
          ELSE IF v.val.t # "str"
          THEN [Ends(t, rec, result, Raise("TypeError")) EXCEPT
                  !.cache_data = seeded, !.vin = v.val,
                  !.attrs = attrs \cup {"vin"}]
          ELSE [Ends(t, rec, result, None) EXCEPT
                  !.cache_data = seeded, !.vin = v.val,
                  !.id = Str(PyPrefix(v.val.s, 8)),
                  !.name = Str(<<"Polestar ">> \o PySuffix(v.val.s, 4)),
                  !.attrs = attrs \cup {"vin", "id", "name"}]

\* init after get_vehicle_data returned (lines 35-45).
init_rest(t, rec, result) ==
  LET cars == DataOf(result, CARS) IN
  IF cars.kind = "raise" THEN Ends(t, rec, result, cars)
  ELSE IF cars.val = Null \/ Len(cars.val.l) = 0
  THEN Ends(t, rec, result, Raise("PolestarApiException"))
  ELSE IF "cache_data" \notin attrs
  THEN Ends(t, rec, result, Raise("AttributeError"))
  ELSE LET first == cars.val.l[1]
           seeded == (CARS :> [data |-> first, timestamp |-> now])
                       @@ cache_data
           v == PyIndex(first, "vin")
       IN IF v.kind = "raise"
          THEN [Ends(t, rec, result, v) EXCEPT !.cache_data = seeded]
          ELSE IF v.val.t # "str"
          THEN [Ends(t, rec, result, Raise("TypeError")) EXCEPT
                  !.cache_data = seeded, !.vin = v.val,
                  !.attrs = attrs \cup {"vin"}]
          ELSE [Ends(t, rec, result, None) EXCEPT
                  !.cache_data = seeded, !.vin = v.val,
                  !.id = Str(PyPrefix(v.val.s, 8)),
                  !.name = Str(<<"Polestar ">> \o PySuffix(v.val.s, 4)),
                  !.attrs = attrs \cup {"vin", "id", "name"}]

\* A variant of the refreshes that rebuilds the cache around the entry
\* written.
store_rest_only_entry(t, rec, result) ==
  LET got == DataOf(result, rec.q) IN
  IF got.kind = "raise" THEN Ends(t, rec, result, got)
  ELSE IF "cache_data" \notin attrs
  THEN Ends(t, rec, result, Raise("AttributeError"))
  ELSE LET stored == (rec.q :> [data |-> got.val, timestamp |-> now])
       IN IF rec.op = "get_ev_data" /\ rec.q = ODO
          THEN [Fetch(t, rec, result, BAT) EXCEPT !.cache_data = stored]
          ELSE IF rec.op = "get_ev_data"
          THEN [Ends(t, rec, result, None) EXCEPT
                  !.cache_data = stored, !.updating = FALSE]
          ELSE [Ends(t, rec, result, None) EXCEPT !.cache_data = stored]

\* A variant of the refreshes that writes the entry before it looks into
\* the response: a response without data for the query leaves a null entry.
store_rest_writes_first(t, rec, result) ==
  LET got == DataOf(result, rec.q) IN
  IF "cache_data" \notin attrs
  THEN Ends(t, rec, result, Raise("AttributeError"))
  ELSE IF got.kind = "raise"
  THEN [Ends(t, rec, result, got) EXCEPT
          !.cache_data = (rec.q :> [data |-> Null, timestamp |-> now])
                           @@ cache_data]
  ELSE LET stored == (rec.q :> [data |-> got.val, timestamp |-> now])
                       @@ cache_data
       IN IF rec.op = "get_ev_data" /\ rec.q = ODO
          THEN [Fetch(t, rec, result, BAT) EXCEPT !.cache_data = stored]
          ELSE IF rec.op = "get_ev_data"
          THEN [Ends(t, rec, result, None) EXCEPT
                  !.cache_data = stored, !.updating = FALSE]
          ELSE [Ends(t, rec, result, None) EXCEPT !.cache_data = stored]

\* getOdometerData / getBatteryData after the query returned (lines 94-96,
\* 100-102), and for get_ev_data what follows them (lines 109-110).
store_rest(t, rec, result) ==
  LET got == DataOf(result, rec.q) IN
  IF got.kind = "raise" THEN Ends(t, rec, result, got)
  ELSE IF "cache_data" \notin attrs
  THEN Ends(t, rec, result, Raise("AttributeError"))
  ELSE LET stored == (rec.q :> [data |-> got.val, timestamp |-> now])
                       @@ cache_data
       IN IF rec.op = "get_ev_data" /\ rec.q = ODO
          THEN [Fetch(t, rec, result, BAT) EXCEPT !.cache_data = stored]
          ELSE IF rec.op = "get_ev_data"
          THEN [Ends(t, rec, result, None) EXCEPT
                  !.cache_data = stored, !.updating = FALSE]
          ELSE [Ends(t, rec, result, None) EXCEPT !.cache_data = stored]

\* What the step of task t that receives arrival a does.
Received(t, rec, a) ==
  LET out == graph_ql_result(a) IN
  CASE out.kind = "raise" ->
         Ends(t, rec, IF a.kind = "return" THEN a.val ELSE Null, out)
    [] out.kind = "retry" ->
         Same([rec EXCEPT !.pc = "headers", !.refreshes = @ + 1])
    [] out.kind = "return" ->
         IF rec.op = "init" THEN init_rest(t, rec, out.val)
         ELSE IF rec.op = "get_graph_ql"
         THEN Ends(t, rec, a.val, Ret(out.val))
         ELSE store_rest(t, rec, out.val)

Becomes(t, n) ==
  /\ task' = [task EXCEPT ![t] = n.task]
  /\ last' = n.last
  /\ attrs' = n.attrs
  /\ cache_data' = n.cache_data
  /\ updating' = n.updating
  /\ vin' = n.vin
  /\ id' = n.id
  /\ name' = n.name
  /\ UNCHANGED now

(***************************************************************************)
(* Actions.                                                                *)
(***************************************************************************)
\* datetime.now() advances.
Tick ==
  /\ now < MaxTime
  /\ now' = now + 1
  /\ last' = NoCall
  /\ UNCHANGED <<attrs, cache_data, updating, vin, id, name, task>>

\* init is called and runs to its first await (line 30).
init(t) ==
  /\ task[t].pc = "idle"
  /\ Becomes(t, Same([Called("init") EXCEPT !.pc = "token"]))

\* self.auth.get_token() completes; init goes on to the vehicle query.
auth_get_token(t) ==
  /\ task[t].pc = "token"
  /\ Becomes(t, Fetch(t, task[t], Null, CARS))

\* Variants of get_ev_data: the in-flight flag not tested; a call that
\* finds the flag set raising instead of returning.
get_ev_data_unguarded(t) ==
  /\ task[t].pc = "idle"
  /\ Becomes(t,
       IF "updating" \notin attrs
       THEN Ends(t, Called("get_ev_data"), Null, Raise("AttributeError"))
       ELSE [Fetch(t, Called("get_ev_data"), Null, ODO) EXCEPT
               !.updating = TRUE])

get_ev_data_busy_raises(t) ==
  /\ task[t].pc = "idle"
  /\ Becomes(t,
       IF "updating" \notin attrs
       THEN Ends(t, Called("get_ev_data"), Null, Raise("AttributeError"))
       ELSE IF updating = TRUE
       THEN Ends(t, Called("get_ev_data"), Null, Raise("RuntimeError"))
       ELSE [Fetch(t, Called("get_ev_data"), Null, ODO) EXCEPT
               !.updating = TRUE])

\* get_ev_data is called (lines 104-108).
get_ev_data(t) ==
  /\ task[t].pc = "idle"
  /\ Becomes(t,
       IF "updating" \notin attrs
       THEN Ends(t, Called("get_ev_data"), Null, Raise("AttributeError"))
       ELSE IF updating = TRUE
       THEN Ends(t, Called("get_ev_data"), Null, None)
       ELSE [Fetch(t, Called("get_ev_data"), Null, ODO) EXCEPT
               !.updating = TRUE])

\* getOdometerData / getBatteryData called on their own (lines 92-93, 98-99).
getOdometerData(t) ==
  /\ task[t].pc = "idle"
  /\ Becomes(t, Fetch(t, Called("getOdometerData"), Null, ODO))

getBatteryData(t) ==
  /\ task[t].pc = "idle"
  /\ Becomes(t, Fetch(t, Called("getBatteryData"), Null, BAT))

\* get_graph_ql is called on its own with the parameters of one of the
\* queries and runs to its first await (lines 112-113).
get_graph_ql(t) ==
  /\ task[t].pc = "idle"
  /\ \E q \in QueryNames :
       Becomes(t, Same([Called("get_graph_ql") EXCEPT
                          !.pc = "headers", !.q = q]))

\* self.auth.headers() completes and the GET is issued (lines 113-115).
auth_headers(t) ==
  /\ task[t].pc = "headers"
  /\ Becomes(t, Same([task[t] EXCEPT !.pc = "get", !.gets = @ + 1]))

\* The GET ends (lines 115-127) and the caller runs to its next await or end.
session_get(t) ==
  /\ task[t].pc = "get"
  /\ \E a \in Arrivals(task[t].q) : Becomes(t, Received(t, task[t], a))

(***************************************************************************)
(* The synchronous calls: they run between two steps of the tasks.         *)
(***************************************************************************)
ReadQueries == {NoneQuery} \cup {Query(q) : q \in QueryNames}

ReadFields ==
  {NoneField,
   Field(<<"batteryChargeLevelPercentage">>),
   Field(<<"content", "/", "model", "/", "name">>)}

\* A variant of get_cache_data with a sliding expiry: a read of an entry
\* renews its timestamp.
CallGetCacheData_sliding ==
  \E query \in ReadQueries, field_name \in ReadFields, skip_cache \in BOOLEAN :
    /\ last' = [NoCall EXCEPT
                  !.op = "get_cache_data", !.query = query,
                  !.field_name = field_name, !.skip_cache = skip_cache,
                  !.result = get_cache_data(query, field_name, skip_cache)]
    /\ cache_data' =
         IF "cache_data" \in attrs /\ ~query.isNone
              /\ query.s \in DOMAIN cache_data
         THEN [cache_data EXCEPT ![query.s].timestamp = now]
         ELSE cache_data
    /\ UNCHANGED <<attrs, updating, vin, id, name, now, task>>

CallGetCacheData ==
  /\ \E query \in ReadQueries, field_name \in ReadFields,
        skip_cache \in BOOLEAN :
       last' = [NoCall EXCEPT
                  !.op = "get_cache_data", !.query = query,
                  !.field_name = field_name, !.skip_cache = skip_cache,
                  !.result = get_cache_data(query, field_name, skip_cache)]
  /\ UNCHANGED <<attrs, cache_data, updating, vin, id, name, now, task>>

CallGetLatestData ==
  /\ \E query \in ReadQueries, field_name \in ReadFields :
       last' = [NoCall EXCEPT
                  !.op = "get_latest_data", !.query = query,
                  !.field_name = field_name,
                  !.result = get_latest_data(query, field_name)]
  /\ UNCHANGED <<attrs, cache_data, updating, vin, id, name, now, task>>

(***************************************************************************)
(* The session from its construction on.                                   *)
(***************************************************************************)
\* __init__ (lines 23-27) sets username, password, _session and auth, and
\* none of the attributes of AttrNames.  The value a variable holds while
\* its attribute does not exist is never read.
Init ==
  /\ attrs = {}
  /\ cache_data = <<>>
  /\ updating = FALSE
  /\ vin = Null
  /\ id = Null
  /\ name = Null
  /\ now = 0
  /\ task = [t \in Tasks |-> IdleTask]
  /\ last = NoCall

\* One step of task t inside init, a refresh or a query.
TaskStep(t) ==
  \/ init(t)
  \/ auth_get_token(t)
  \/ get_ev_data(t)
  \/ getOdometerData(t)
  \/ getBatteryData(t)
  \/ auth_headers(t)
  \/ session_get(t)

Next ==
  \/ Tick
  \/ \E t \in Tasks : TaskStep(t)
  \/ \E t \in Tasks : get_graph_ql(t)
  \/ CallGetCacheData
  \/ CallGetLatestData

Spec == Init /\ [][Next]_vars

\* A session on which the attributes that init (line 39), the read
\* accessors (lines 48, 78) and get_ev_data (line 105) read without ever
\* creating them are in place: an empty cache and a clear in-flight flag.
InitSession ==
  /\ attrs = {"cache_data", "updating"}
  /\ cache_data = <<>>
  /\ updating = FALSE
  /\ vin = Null
  /\ id = Null
  /\ name = Null
  /\ now = 0
  /\ task = [t \in Tasks |-> IdleTask]
  /\ last = NoCall

\* The session used by one caller at a time: the caller awaits each call,
\* reads the accessors between two calls, and time passes.
NextSession ==
  \/ Tick
  \/ TaskStep(1)
  \/ get_graph_ql(1)
  \/ task[1].pc = "idle" /\ CallGetCacheData
  \/ task[1].pc = "idle" /\ CallGetLatestData

SpecSession == InitSession /\ [][NextSession]_vars

\* The session used by all the tasks at once.  No step of a task reads the
\* clock other than to stamp the entry it writes, and the accessors change
\* nothing, so the tasks are followed at one instant and without reads; a
\* query made through get_graph_ql directly reads and writes neither the
\* cache nor the flag and is left out as well.
NextTasks == \E t \in Tasks : TaskStep(t)

SpecTasks == InitSession /\ [][NextTasks]_vars

(***************************************************************************)
(* The field resolver on its own, over sample paths and documents.         *)
(***************************************************************************)
Leaves ==
  {Null, Num(0), Num(80), Str(<<>>), Str(<<"2">>), Bool(FALSE), Bool(TRUE),
   EmptyMap}

DocSamples ==
  {Null, EmptyMap, Vehicle(VIN_LONG),
   Map("batteryChargeLevelPercentage" :> Num(80))}
    \cup {Map("a" :> v) : v \in Leaves}
    \cup {Map("a" :> Map("b" :> v)) : v \in Leaves}

FieldSamples ==
  {NoneField, Field(<<>>), Field(<<"a">>), Field(<<"b">>),
   Field(<<"a", "/", "b">>), Field(<<"a", "/">>), Field(<<"/", "a">>),
   Field(<<"a", "/", "b", "/", "c">>),
   Field(<<"content", "/", "model", "/", "name">>),
   Field(<<"batteryChargeLevelPercentage">>)}

CallGetFieldNameValue ==
  /\ \E field_name \in FieldSamples, data \in DocSamples :
       last' = [NoCall EXCEPT
                  !.op = "_get_field_name_value",
                  !.field_name = field_name, !.data = data,
                  !.result = _get_field_name_value(field_name, data)]
  /\ UNCHANGED <<attrs, cache_data, updating, vin, id, name, now, task>>

SpecResolve == Init /\ [][CallGetFieldNameValue]_vars

(***************************************************************************)
(* Properties.                                                             *)
(***************************************************************************)
IsFreshRead ==
  /\ last.op = "get_cache_data"
  /\ last.skip_cache = FALSE
  /\ ~last.query.isNone

IsAnyRead ==
  /\ last.op = "get_cache_data"
  /\ last.skip_cache = TRUE
  /\ ~last.query.isNone

BATTERY_LEVEL == Field(<<"batteryChargeLevelPercentage">>)

\* C1: a fresh read (skip_cache False) of a query that has an entry written
\* at timestamp returns the resolved field while now < timestamp +
\* CACHE_TIME and None from timestamp + CACHE_TIME on.
C1_FreshBoundary ==
  (IsFreshRead /\ last.query.s \in DOMAIN cache_data) =>
    LET entry == cache_data[last.query.s] IN
    /\ entry.timestamp <= now
    /\ IF now < entry.timestamp + CACHE_TIME
       THEN last.result = _get_field_name_value(last.field_name, entry.data)
       ELSE last.result = None

\* An entry that holds a value is read at the very instant it turns stale.
C1_Witness ==
  /\ IsFreshRead
  /\ last.query = Query(BAT)
  /\ last.field_name = BATTERY_LEVEL
  /\ BAT \in DOMAIN cache_data
  /\ cache_data[BAT].data = Map("batteryChargeLevelPercentage" :> Num(80))
  /\ now = cache_data[BAT].timestamp + CACHE_TIME
  /\ last.result = None

\* C2: a read with skip_cache True of a query that has an entry returns the
\* field resolved in the entry's data, however old the entry is.
C2_SkipCacheIgnoresAge ==
  (IsAnyRead /\ last.query.s \in DOMAIN cache_data) =>
    last.result =
      _get_field_name_value(last.field_name, cache_data[last.query.s].data)

\* The battery level 80 is still read once the entry is stale.
C2_Witness ==
  /\ IsAnyRead
  /\ last.query = Query(BAT)
  /\ last.field_name = BATTERY_LEVEL
  /\ BAT \in DOMAIN cache_data
  /\ now >= cache_data[BAT].timestamp + CACHE_TIME
  /\ last.result = Ret(Num(80))

IsResolve ==
  /\ last.op = "_get_field_name_value"
  /\ ~last.field_name.isNone
  /\ last.data.t = "map"

\* The keys a field name addresses, s1 .. sn.
Segments(field_name) ==
  IF HasSlash(field_name.s) THEN Split(field_name.s)
  ELSE <<KeyOf(field_name.s)>>

Has(data, key) == data.t = "map" /\ key \in DOMAIN data.m

Unspecified == [kind |-> "unspecified", val |-> Null]

\* The result the claim as written gives from segment i on: None at a
\* missing or falsy intermediate value, the final value as it is.  Nothing
\* is said of a final segment that is not there, nor of a value on the way
\* that is not a mapping.
RECURSIVE ClaimedFrom(_, _, _)
ClaimedFrom(segs, i, data) ==
  IF data.t # "map" THEN Unspecified
  ELSE IF i = Len(segs)
  THEN IF Has(data, segs[i]) THEN Ret(data.m[segs[i]]) ELSE Unspecified
  ELSE IF Has(data, segs[i]) /\ Truthy(data.m[segs[i]])
  THEN ClaimedFrom(segs, i + 1, data.m[segs[i]])
  ELSE None

\* C9 as written: over a mapping document the result is None at the first
\* missing or falsy intermediate segment, and otherwise the value at the
\* final segment as it is, falsy or not.
C9_FinalValueAsIs ==
  IsResolve =>
    LET claimed == ClaimedFrom(Segments(last.field_name), 1, last.data) IN
    claimed = Unspecified \/ last.result = claimed

\* Every segment of a path with a separator must be there and truthy; a
\* truthy value on the way that is not a mapping is left aside.
RECURSIVE AllTruthyFrom(_, _, _)
AllTruthyFrom(segs, i, data) ==
  IF i > Len(segs) THEN Ret(data)
  ELSE IF data.t # "map" THEN Unspecified
  ELSE IF Has(data, segs[i]) /\ Truthy(data.m[segs[i]])
  THEN AllTruthyFrom(segs, i + 1, data.m[segs[i]])
  ELSE None

\* C9 amended: over a mapping document whose truthy values met before the
\* end of the path are mappings, a path with a separator gives None at the
\* first segment, the final one included, that is missing or falsy, and the
\* value at the final segment only when every segment's value is truthy; a
\* path without separator gives the value at its key as it is, falsy or
\* not, when the key is there; an empty document gives None for every path.
C9_Resolve ==
  /\ IsResolve =>
       IF DOMAIN last.data.m = {} THEN last.result = None
       ELSE IF HasSlash(last.field_name.s)
       THEN LET r == AllTruthyFrom(Split(last.field_name.s), 1, last.data)
            IN r = Unspecified \/ last.result = r
       ELSE Has(last.data, KeyOf(last.field_name.s)) =>
              last.result = Ret(last.data.m[KeyOf(last.field_name.s)])
  /\ (IsResolve
        /\ last.field_name = Field(<<"content", "/", "model", "/", "name">>)
        /\ last.data = Vehicle(VIN_LONG)) =>
       last.result = Ret(Str(<<"2">>))
  /\ (IsResolve /\ last.field_name = Field(<<"a", "/", "b">>)
        /\ last.data = Map("a" :> EmptyMap)) =>
       last.result = None
  /\ (IsResolve /\ last.field_name = Field(<<"a">>)
        /\ last.data = Map("a" :> Num(0))) =>
       last.result = Ret(Num(0))

\* "a/b" is resolved in {a: {b: 0}}: the final value 0 reads as None.
C9_Witness ==
  /\ IsResolve
  /\ last.field_name = Field(<<"a", "/", "b">>)
  /\ last.data = Map("a" :> Map("b" :> Num(0)))
  /\ last.result = None

\* The body's first error is the authentication failure.
IsAuthFailure(body) ==
  /\ body.t = "map"
  /\ "errors" \in DOMAIN body.m
  /\ body.m["errors"].l[1].m["message"] = NOT_AUTHENTICATED

\* C3: a response whose first error is "User not authenticated" is followed
\* by a token refresh and a retried request, and the retried response is
\* what the call goes on with: no call ends on the authentication failure
\* without a refresh.
C3_AuthFailureIsRetried ==
  (last.task # 0 /\ IsAuthFailure(last.data)) => last.refreshes > 0

\* Task t is inside get_ev_data, past the test of the flag.
Refreshing(t) ==
  task[t].op = "get_ev_data" /\ task[t].pc \in {"headers", "get"}

\* The call of get_ev_data that has just ended fetched nothing.
Dropped(t) ==
  /\ last.task = t
  /\ last.op = "get_ev_data"
  /\ last.gets = 0
  /\ last.result = None

\* C4: at no time are two tasks inside get_ev_data between the test of the
\* in-flight flag and its clearing, and the flag is set while one is.
C4_AtMostOneRefresh ==
  /\ Cardinality({t \in Tasks : Refreshing(t)}) <= 1
  /\ \A t \in Tasks : Refreshing(t) => updating = TRUE

\* One task is fetching the battery data while another task's call of
\* get_ev_data has come and gone.
C4_Witness ==
  \E t, u \in Tasks :
    /\ t # u
    /\ Refreshing(t)
    /\ task[t].q = BAT
    /\ task[t].pc = "get"
    /\ Dropped(u)

\* The step is task t calling get_ev_data.
CallsGetEvData(t) ==
  /\ task[t].pc = "idle"
  /\ \/ task'[t].op = "get_ev_data"
     \/ last'.task = t /\ last'.op = "get_ev_data"

\* C5: a call of get_ev_data made while another call has set the flag and
\* not yet completed returns at once with None, has issued no request, and
\* leaves the cache, the flag and every other task as they were.
C5_OverlapIsNoOp ==
  [][\A t \in Tasks :
       (/\ CallsGetEvData(t)
        /\ "updating" \in attrs
        /\ updating = TRUE
        /\ \E u \in Tasks \ {t} : Refreshing(u))
       => /\ task' = task
          /\ last'.task = t
          /\ last'.gets = 0
          /\ last'.result = None
          /\ cache_data' = cache_data
          /\ updating' = updating
          /\ attrs' = attrs]_vars

\* A call has just been dropped while another task awaits its response.
C5_Witness ==
  \E t, u \in Tasks :
    /\ t # u
    /\ Dropped(t)
    /\ Refreshing(u)
    /\ task[u].gets = 1
    /\ updating = TRUE

\* The body carries a vehicle list that is null or empty.
EmptyCars(body) ==
  /\ body.t = "map"
  /\ "errors" \notin DOMAIN body.m
  /\ "data" \in DOMAIN body.m
  /\ body.m["data"].t = "map"
  /\ CARS \in DOMAIN body.m["data"].m
  /\ body.m["data"].m[CARS] \in {Null, List(<<>>)}

\* C6: when the vehicle query of init answers with a null or empty list,
\* init raises PolestarApiException and writes no cache entry and no vin,
\* id or name.
C6_NoVehicles ==
  [][\A t \in Tasks :
       (/\ task[t].op = "init"
        /\ task[t].pc = "get"
        /\ last'.task = t
        /\ EmptyCars(last'.data))
       => /\ last'.result = Raise("PolestarApiException")
          /\ cache_data' = cache_data
          /\ attrs' = attrs
          /\ vin' = vin
          /\ id' = id
          /\ name' = name]_vars

\* init has just failed on an empty list on a session never initialised.
C6_Witness ==
  /\ last.op = "init"
  /\ last.data = Map("data" :> Map(CARS :> List(<<>>)))
  /\ last.result = Raise("PolestarApiException")
  /\ CARS \notin DOMAIN cache_data
  /\ attrs \cap {"vin", "id", "name"} = {}

\* C7: get_cache_data and get_latest_data return a value or None and never
\* raise, whatever the query name and the field.
C7_ReadsNeverRaise ==
  last.op \in {"get_cache_data", "get_latest_data"} =>
    last.result.kind = "return"

\* C10: get_latest_data returns None when the query has no entry, None when
\* the entry's data is None, and otherwise the field resolved in the data,
\* however old the entry is.
C10_LatestData ==
  (last.op = "get_latest_data" /\ ~last.query.isNone) =>
    last.result =
      IF last.query.s \notin DOMAIN cache_data THEN None
      ELSE IF cache_data[last.query.s].data = Null THEN None
      ELSE _get_field_name_value(last.field_name,
                                 cache_data[last.query.s].data)

\* No operation of the session has been started: every task is idle, no call
\* has ended and the clock has not moved.
JustConstructed ==
  /\ \A t \in Tasks : task[t] = IdleTask
  /\ last = NoCall
  /\ now = 0

\* C11: on a session that has just been constructed the cache exists and is
\* an empty mapping, and the in-flight flag exists and is False.
C11_InitialState ==
  JustConstructed =>
    /\ {"cache_data", "updating"} \subseteq attrs
    /\ cache_data = <<>>
    /\ updating = FALSE

\* C12: a call of get_graph_ql renews the token and repeats the request once
\* for every authentication failure it receives, and ends only on a response
\* that is not one: when the call has ended it has renewed the token one
\* time less than it has issued requests, the last body it received is not
\* the authentication failure, and that body is what it returns.
C12_RetriesUntilOtherResponse ==
  (last.op = "get_graph_ql" /\ last.task # 0) =>
    /\ last.refreshes = last.gets - 1
    /\ ~IsAuthFailure(last.data)
    /\ last.result.kind = "return" => last.result = Ret(last.data)

\* The body carries an error list whose first message is not the
\* authentication failure.
IsOtherError(body) ==
  /\ body.t = "map"
  /\ "errors" \in DOMAIN body.m
  /\ Truthy(body.m["errors"])
  /\ body.m["errors"].l[1].m["message"] # NOT_AUTHENTICATED

\* C13: a call of get_graph_ql that receives an error list whose first
\* message is not the authentication failure renews no token, issues no
\* second request, raises nothing and returns the body it received, errors
\* included.
C13_OtherErrorReturned ==
  (last.op = "get_graph_ql" /\ last.task # 0 /\ IsOtherError(last.data)) =>
    /\ last.gets = 1
    /\ last.refreshes = 0
    /\ last.result = Ret(last.data)
    /\ last.result.val.m["errors"] = ErrorList(OTHER_ERROR)

\* A query has just returned a body made of an error list alone.
C13_Witness ==
  /\ last.op = "get_graph_ql"
  /\ last.data = Map("errors" :> ErrorList(OTHER_ERROR))
  /\ last.result = Ret(last.data)
  /\ last.gets = 1

RefreshOps == {"getOdometerData", "getBatteryData", "get_ev_data"}

\* The entry a refresh at its await of the GET is about to write.
Target(rec) ==
  IF rec.op = "getOdometerData" THEN ODO
  ELSE IF rec.op = "getBatteryData" THEN BAT
  ELSE rec.q

\* The step is task t resuming from the GET of a refresh.
RefreshResumes(t) ==
  /\ task[t].op \in RefreshOps
  /\ task[t].pc = "get"
  /\ task'[t] # task[t]

\* C14: no step removes a cache entry, and the step in which a refresh
\* resumes from its GET leaves every entry but its own as it was
\* (getOdometerData the odometer entry, getBatteryData the battery entry);
\* its own entry is either left alone or becomes {data: the data of the
\* response for the query, timestamp: now} and nothing else, and it is
\* written when the refresh succeeds.
C14_WriteOneEntry ==
  [][/\ DOMAIN cache_data \subseteq DOMAIN cache_data'
     /\ \A t \in Tasks :
          RefreshResumes(t) =>
            LET q == Target(task[t]) IN
            /\ q \in {ODO, BAT}
            /\ \A k \in DOMAIN cache_data' \ {q} :
                 k \in DOMAIN cache_data /\ cache_data'[k] = cache_data[k]
            /\ \/ cache_data' = cache_data
               \/ /\ q \in DOMAIN cache_data'
                  /\ cache_data'[q].timestamp = now
                  /\ cache_data'[q].data \in Payloads(q)
                  /\ last'.task = t =>
                       cache_data'[q] =
                         [data |-> last'.data.m["data"].m[q],
                          timestamp |-> now]
            /\ (last'.task = t /\ last'.result = None) =>
                 cache_data'[q] =
                   [data |-> last'.data.m["data"].m[q], timestamp |-> now]
            /\ (last'.task # t) =>
                 /\ task[t].op = "get_ev_data" /\ q = ODO
                 /\ cache_data'[q].timestamp = now]_vars

\* getOdometerData has just replaced an odometer reading by null while the
\* vehicle and battery entries, written earlier, are still there.
C14_Witness ==
  /\ last.op = "getOdometerData"
  /\ last.result = None
  /\ DOMAIN cache_data = QueryNames
  /\ cache_data[ODO] = [data |-> Null, timestamp |-> now]
  /\ cache_data[BAT].timestamp < now
  /\ cache_data[BAT].data = Map("batteryChargeLevelPercentage" :> Num(80))
  /\ cache_data[CARS].timestamp < now

\* C15: a step that is a call of get_cache_data (either mode) or of
\* get_latest_data, the resolver they call included, leaves the cache, its
\* timestamps, the flag, the identity, the clock and the tasks as they were;
\* and a read that repeats the read just made, in the same state and at the
\* same time, returns what that read returned.
C15_ReadsChangeNothing ==
  [][last'.op \in {"get_cache_data", "get_latest_data"} =>
       /\ cache_data' = cache_data
       /\ attrs' = attrs
       /\ updating' = updating
       /\ <<vin', id', name'>> = <<vin, id, name>>
       /\ now' = now
       /\ task' = task
       /\ (/\ last.op = last'.op
           /\ last.query = last'.query
           /\ last.field_name = last'.field_name
           /\ last.skip_cache = last'.skip_cache)
          => last'.result = last.result]_vars

\* The battery level has just been read, with skip_cache False, from an
\* entry written one tick earlier: the entry still bears that timestamp.
C15_Witness ==
  /\ IsFreshRead
  /\ last.query = Query(BAT)
  /\ last.field_name = BATTERY_LEVEL
  /\ last.result = Ret(Num(80))
  /\ BAT \in DOMAIN cache_data
  /\ cache_data[BAT].timestamp + 1 = now

\* A call of init has completed successfully at some time.
Initialised == {"vin", "id", "name"} \subseteq attrs

\* The step is the one in which a call of init ends.
InitEnds == \E t \in Tasks : task[t].op = "init" /\ last'.task = t

C17_InitOrder ==
  [][\A t \in Tasks :
       /\ (task'[t].op = "init" /\ task'[t] # task[t]) =>
            \/ task[t].pc = "idle" /\ task'[t].pc = "token"
                 /\ task'[t].gets = 0
            \/ task[t].pc = "token" /\ task'[t].pc = "headers"
                 /\ task'[t].q = CARS /\ task'[t].gets = 0
            \/ task[t].pc = "headers" /\ task'[t].pc = "get"
                 /\ task'[t].q = CARS /\ task'[t].gets = 1
       /\ (task[t].op = "init" /\ last'.task # t) =>
            /\ cache_data' = cache_data
            /\ <<vin', id', name'>> = <<vin, id, name>>
       /\ (task[t].op = "init" /\ last'.task = t /\ last'.result = None) =>
            LET first == last'.data.m["data"].m[CARS].l[1] IN
            /\ task[t].pc = "get" /\ task[t].q = CARS
            /\ last'.gets = 1
            /\ cache_data'[CARS] = [data |-> first, timestamp |-> now]
            /\ vin' = first.m["vin"]
            /\ \A k \in DOMAIN cache_data' \ {CARS} :
                 k \in DOMAIN cache_data /\ cache_data'[k] = cache_data[k]]_vars

\* init has just completed on a list of two vehicles: the entry and the vin
\* are those of the first one, and nothing else has been fetched.
C17_Witness ==
  /\ last.op = "init"
  /\ last.result = None
  /\ last.gets = 1
  /\ last.data =
       Map("data" :> Map(CARS :> List(<<Vehicle(VIN_SHORT),
                                        Vehicle(VIN_LONG)>>)))
  /\ DOMAIN cache_data = {CARS}
  /\ cache_data[CARS].data = Vehicle(VIN_SHORT)
  /\ vin = VIN_SHORT

C19_FailedRefreshKeepsCache ==
  [][\A t \in Tasks :
       (/\ task[t].op \in RefreshOps
        /\ last'.task = t
        /\ last'.result.kind = "raise")
       => cache_data' = cache_data]_vars

\* getBatteryData has just failed on a response made of an error list
\* alone; the battery entry written earlier still holds 80.
C19_Witness ==
  /\ last.op = "getBatteryData"
  /\ last.data = Map("errors" :> ErrorList(OTHER_ERROR))
  /\ last.result = Raise("KeyError")
  /\ BAT \in DOMAIN cache_data
  /\ cache_data[BAT].data = Map("batteryChargeLevelPercentage" :> Num(80))
  /\ cache_data[BAT].timestamp < now

====
